---- MODULE Spec2Model ----
(***************************************************************************)
(* Model of the WebRTC signaling relay (signaling/server.ts, the           *)
(* multi-subscriber version that starts at line 168 of the file) and of    *)
(* the subscriber-side negotiation engine (subscriber/src/subscriber.ts    *)
(* with the websocket.ts / webrtc.ts parts kept in subscriber/subscriber.js)*)
(*                                                                         *)
(* Two specifications share the module: SpecRelay moves only the relay's   *)
(* variables, SpecSub only the subscriber client's.                        *)
(***************************************************************************)
EXTENDS Integers, Sequences, FiniteSets, TLC

\* ---------------------------------------------------------------- bounds
NConn == 3          \* WebSocket connections the relay ever accepts
MaxIds == 2         \* subscriber ids generated in one run
MaxTime == 1        \* Date.now() ranges over 0..MaxTime
MaxOffers == 2      \* offers one subscriber client receives
MaxCands == 3       \* candidates one subscriber client receives

Conns == 1..NConn
Null == 0           \* null / undefined

\* ------------------------------------------------------- relay variables
VARIABLES
    readyState,            \* ws.readyState of each connection
    role,                  \* closure variable `role` of each connection
    subscriberId,          \* closure variable `subscriberId` of each connection
    publisher,             \* let publisher: WebSocket | null
    subscribers,           \* Map<subscriberId, WebSocket>, in insertion order
    subscriberIdCounter,   \* let subscriberIdCounter
    issued,                \* history: every id generateSubscriberId returned
    ev,                    \* history: the event the last handler run served
    out                    \* history: ws.send / ws.close calls of that run

relayVars == <<readyState, role, subscriberId, publisher, subscribers,
               subscriberIdCounter, issued, ev, out>>

\* ---------------------------------------------- subscriber client variables
VARIABLES
    pc,                    \* let pc: RTCPeerConnection | null  (a handle number)
    remoteDescriptionSet,  \* let remoteDescriptionSet
    clientSubscriberId,    \* let subscriberId (subscriber.ts)
    offerCount,            \* let offerCount
    pendingCandidates,     \* let pendingCandidates
    handles,               \* the RTCPeerConnection objects makePC has created
    tasks,                 \* handler invocations suspended at an await, or rejected
    arrivals,              \* history: per received candidate, the pc it found
    applied,               \* history: the addIceToPC calls, in call order
    answers,               \* history: the answers sent
    acked                  \* history: the hello ack has been received

subVars == <<pc, remoteDescriptionSet, clientSubscriberId, offerCount,
             pendingCandidates, handles, tasks, arrivals, applied, answers,
             acked>>

vars == <<relayVars, subVars>>

\* ------------------------------------------------------------- messages
NoId == <<>>                      \* a message without subscriberId
BogusId == <<"subscriber", -1, 0>> \* an id the relay never generated

\* A plausible slip: the id built from the clock alone, without the counter
generateSubscriberId_NoCounter(now, counter) == <<"subscriber", now, 0>>

\* generateSubscriberId: `subscriber-${Date.now()}-${++subscriberIdCounter}`
\* The string is kept as its three parts; two such strings are equal iff
\* their parts are (the counter part holds digits only).
generateSubscriberId(now, counter) == <<"subscriber", now, counter + 1>>

SignalTypes == {"offer", "answer", "candidate"}

\* the role values a hello may carry
HelloRoles == {"publisher", "subscriber", "viewer"}

isRole(x) == x = "publisher" \/ x = "subscriber"

\* safeSend under the ready states rs: the ws.send calls it makes
safeSend(rs, ws, msg) ==
    IF ws = Null THEN <<>>
    ELSE IF rs[ws] # "OPEN" THEN <<>>
    ELSE <<[op |-> "send", to |-> ws, msg |-> msg]>>

\* ws.close(code): the call, and the ready state it leaves
closeCall(ws, code) == <<[op |-> "close", to |-> ws, msg |-> [type |-> "close", code |-> code]]>>
closeState(rs, ws) ==
    IF rs[ws] = "OPEN" THEN [rs EXCEPT ![ws] = "CLOSING"] ELSE rs

\* Map operations on the insertion-ordered entry list
SubKeys(m) == {m[i].sid : i \in 1..Len(m)}
SubHas(m, id) == id \in SubKeys(m)
SubGet(m, id) ==
    IF SubHas(m, id) THEN (CHOOSE e \in {m[i] : i \in 1..Len(m)} : e.sid = id).ws
    ELSE Null
SubSet(m, id, ws) ==
    IF SubHas(m, id)
    THEN [i \in 1..Len(m) |-> IF m[i].sid = id THEN [sid |-> id, ws |-> ws] ELSE m[i]]
    ELSE Append(m, [sid |-> id, ws |-> ws])
SubDelete(m, id) == SelectSeq(m, LAMBDA e : e.sid # id)

\* safeSend of one message to every value of the map, in iteration order
RECURSIVE Broadcast(_, _, _)
Broadcast(rs, m, msg) ==
    IF m = <<>> THEN <<>>
    ELSE safeSend(rs, Head(m).ws, msg) \o Broadcast(rs, Tail(m), msg)

\* ----------------------------------------------------------------- init
InitRelay ==
    /\ readyState = [c \in Conns |-> "NONE"]
    /\ role = [c \in Conns |-> "null"]
    /\ subscriberId = [c \in Conns |-> NoId]
    /\ publisher = Null
    /\ subscribers = <<>>
    /\ subscriberIdCounter = 0
    /\ issued = <<>>
    /\ ev = [kind |-> "init", from |-> Null, msg |-> [type |-> "none"]]
    /\ out = <<>>

\* A handler run serves event e: the history variables record it.
Serve(kind, c, m) ==
    /\ ev' = [kind |-> kind, from |-> c, msg |-> m]
    /\ UNCHANGED subVars

CanReceive(c) == readyState[c] \in {"OPEN", "CLOSING"}

\* wss.on('connection'): a new socket; the relay greets it.
OnConnection(c) ==
    /\ readyState[c] = "NONE"
    /\ \A d \in Conns : d < c => readyState[d] # "NONE"
    /\ readyState' = [readyState EXCEPT ![c] = "OPEN"]
    /\ out' = safeSend(readyState', c, [type |-> "info"])
    /\ Serve("connection", c, [type |-> "none"])
    /\ UNCHANGED <<role, subscriberId, publisher, subscribers,
                   subscriberIdCounter, issued>>

\* ws.on('message') with a payload JSON.parse rejects
OnInvalidJson(c) ==
    /\ CanReceive(c)
    /\ out' = safeSend(readyState, c, [type |-> "error", error |-> "invalid json"])
    /\ Serve("message", c, [type |-> "invalid-json"])
    /\ UNCHANGED <<readyState, role, subscriberId, publisher, subscribers,
                   subscriberIdCounter, issued>>

\* A plausible slip: `role = hello.role` done before the isRole check
OnHelloInvalid_SetsRole(c, r) ==
    /\ CanReceive(c)
    /\ ~isRole(r)
    /\ role' = [role EXCEPT ![c] = r]
    /\ out' = safeSend(readyState, c,
                  [type |-> "hello", ok |-> FALSE, error |-> "invalid role"])
    /\ Serve("message", c, [type |-> "hello", role |-> r])
    /\ UNCHANGED <<readyState, subscriberId, publisher, subscribers,
                   subscriberIdCounter, issued>>

\* hello whose role is not a Role
OnHelloInvalid(c, r) ==
    /\ CanReceive(c)
    /\ ~isRole(r)
    /\ out' = safeSend(readyState, c,
                  [type |-> "hello", ok |-> FALSE, error |-> "invalid role"])
    /\ Serve("message", c, [type |-> "hello", role |-> r])
    /\ UNCHANGED <<readyState, role, subscriberId, publisher, subscribers,
                   subscriberIdCounter, issued>>

\* hello, role publisher
OnHelloPublisher(c) ==
    /\ CanReceive(c)
    /\ isRole("publisher")
    /\ LET evict == publisher # Null /\ publisher # c
           rs1 == IF evict THEN closeState(readyState, publisher) ELSE readyState
           o1 == IF evict
                 THEN safeSend(readyState, publisher,
                          [type |-> "error",
                           error |-> "publisher role taken; disconnecting"])
                      \o closeCall(publisher, 1011)
                 ELSE <<>>
       IN /\ role' = [role EXCEPT ![c] = "publisher"]
          /\ readyState' = rs1
          /\ publisher' = c
          /\ out' = o1
                    \o safeSend(rs1, c, [type |-> "hello", ok |-> TRUE,
                                         role |-> "publisher"])
                    \o Broadcast(rs1, subscribers,
                                 [type |-> "peer", event |-> "connected",
                                  role |-> "publisher"])
    /\ Serve("message", c, [type |-> "hello", role |-> "publisher"])
    /\ UNCHANGED <<subscriberId, subscribers, subscriberIdCounter, issued>>

\* A plausible slip: the publisher is notified first, the ack is sent last
OnHelloSubscriber_AckLast(c, now) ==
    /\ CanReceive(c)
    /\ subscriberIdCounter < MaxIds
    /\ LET id == generateSubscriberId(now, subscriberIdCounter)
       IN /\ role' = [role EXCEPT ![c] = "subscriber"]
          /\ subscriberIdCounter' = subscriberIdCounter + 1
          /\ issued' = Append(issued, id)
          /\ subscriberId' = [subscriberId EXCEPT ![c] = id]
          /\ subscribers' = SubSet(subscribers, id, c)
          /\ out' = safeSend(readyState, publisher,
                        [type |-> "peer", event |-> "connected",
                         role |-> "subscriber", subscriberId |-> id])
                    \o safeSend(readyState, c,
                        [type |-> "hello", ok |-> TRUE, role |-> "subscriber",
                         subscriberId |-> id])
    /\ Serve("message", c, [type |-> "hello", role |-> "subscriber"])
    /\ UNCHANGED <<readyState, publisher>>

\* hello, role subscriber
OnHelloSubscriber(c, now) ==
    /\ CanReceive(c)
    /\ subscriberIdCounter < MaxIds
    /\ LET id == generateSubscriberId(now, subscriberIdCounter)
       IN /\ role' = [role EXCEPT ![c] = "subscriber"]
          /\ subscriberIdCounter' = subscriberIdCounter + 1
          /\ issued' = Append(issued, id)
          /\ subscriberId' = [subscriberId EXCEPT ![c] = id]
          /\ subscribers' = SubSet(subscribers, id, c)
          /\ out' = safeSend(readyState, c,
                        [type |-> "hello", ok |-> TRUE, role |-> "subscriber",
                         subscriberId |-> id])
                    \o safeSend(readyState, publisher,
                        [type |-> "peer", event |-> "connected",
                         role |-> "subscriber", subscriberId |-> id])
    /\ Serve("message", c, [type |-> "hello", role |-> "subscriber"])
    /\ UNCHANGED <<readyState, publisher>>

\* A plausible slip: no `!role` gate, the message goes on to the publisher
OnBeforeHello_NoGate(c, t) ==
    /\ CanReceive(c)
    /\ role[c] = "null"
    /\ out' = safeSend(readyState, publisher,
                  [type |-> t, from |-> "subscriber", to |-> "publisher"])
    /\ Serve("message", c, [type |-> t])
    /\ UNCHANGED <<readyState, role, subscriberId, publisher, subscribers,
                   subscriberIdCounter, issued>>

\* any message but hello while `role` is still null
OnBeforeHello(c, t) ==
    /\ CanReceive(c)
    /\ role[c] = "null"
    /\ out' = safeSend(readyState, c,
                  [type |-> "error", error |-> "must send hello first"])
    /\ Serve("message", c, [type |-> t])
    /\ UNCHANGED <<readyState, role, subscriberId, publisher, subscribers,
                   subscriberIdCounter, issued>>

\* viewer-ready
OnViewerReady(c) ==
    /\ CanReceive(c)
    /\ role[c] # "null"
    /\ out' = IF role[c] # "subscriber" \/ subscriberId[c] = NoId
              THEN safeSend(readyState, c,
                       [type |-> "error",
                        error |-> "only subscribers can send viewer-ready"])
              ELSE IF publisher = Null
              THEN safeSend(readyState, c,
                       [type |-> "error", error |-> "no publisher connected"])
              ELSE safeSend(readyState, publisher,
                       [type |-> "viewer-ready", subscriberId |-> subscriberId[c],
                        from |-> "subscriber", to |-> "publisher"])
    /\ Serve("message", c, [type |-> "viewer-ready"])
    /\ UNCHANGED <<readyState, role, subscriberId, publisher, subscribers,
                   subscriberIdCounter, issued>>

\* A plausible slip: control forwarded without the sender-role check
OnControl_NoRoleCheck(c) ==
    /\ CanReceive(c)
    /\ role[c] # "null"
    /\ out' = IF publisher = Null
              THEN safeSend(readyState, c,
                       [type |-> "error", error |-> "no publisher connected"])
              ELSE safeSend(readyState, publisher,
                       [type |-> "control", from |-> "subscriber",
                        to |-> "publisher", subscriberId |-> subscriberId[c]])
    /\ Serve("message", c, [type |-> "control"])
    /\ UNCHANGED <<readyState, role, subscriberId, publisher, subscribers,
                   subscriberIdCounter, issued>>

\* control
OnControl(c) ==
    /\ CanReceive(c)
    /\ role[c] # "null"
    /\ out' = IF role[c] # "subscriber"
              THEN safeSend(readyState, c,
                       [type |-> "error",
                        error |-> "only subscriber can send control"])
              ELSE IF publisher = Null
              THEN safeSend(readyState, c,
                       [type |-> "error", error |-> "no publisher connected"])
              ELSE safeSend(readyState, publisher,
                       [type |-> "control", from |-> "subscriber",
                        to |-> "publisher", subscriberId |-> subscriberId[c]])
    /\ Serve("message", c, [type |-> "control"])
    /\ UNCHANGED <<readyState, role, subscriberId, publisher, subscribers,
                   subscriberIdCounter, issued>>

\* A plausible slip: a control-status for an unknown subscriberId is reported
\* back to the publisher instead of being dropped
OnControlStatus_ReportsMiss(c, targetId) ==
    /\ CanReceive(c)
    /\ role[c] # "null"
    /\ LET fwd == [type |-> "control-status", from |-> "publisher",
                   to |-> "subscriber"]
       IN out' = IF role[c] # "publisher"
                 THEN safeSend(readyState, c,
                          [type |-> "error",
                           error |-> "only publisher can send control-status"])
                 ELSE IF targetId # NoId /\ ~SubHas(subscribers, targetId)
                 THEN safeSend(readyState, c,
                          [type |-> "error", error |-> "unknown subscriber"])
                 ELSE IF targetId # NoId
                 THEN safeSend(readyState, SubGet(subscribers, targetId), fwd)
                 ELSE Broadcast(readyState, subscribers, fwd)
    /\ Serve("message", c, [type |-> "control-status", subscriberId |-> targetId])
    /\ UNCHANGED <<readyState, role, subscriberId, publisher, subscribers,
                   subscriberIdCounter, issued>>

\* control-status; targetId is the message's subscriberId (NoId when absent)
OnControlStatus(c, targetId) ==
    /\ CanReceive(c)
    /\ role[c] # "null"
    /\ LET fwd == [type |-> "control-status", from |-> "publisher",
                   to |-> "subscriber"]
       IN out' = IF role[c] # "publisher"
                 THEN safeSend(readyState, c,
                          [type |-> "error",
                           error |-> "only publisher can send control-status"])
                 ELSE IF targetId # NoId
                 THEN safeSend(readyState, SubGet(subscribers, targetId), fwd)
                 ELSE Broadcast(readyState, subscribers, fwd)
    /\ Serve("message", c, [type |-> "control-status", subscriberId |-> targetId])
    /\ UNCHANGED <<readyState, role, subscriberId, publisher, subscribers,
                   subscriberIdCounter, issued>>

\* A plausible slip: `{ subscriberId, ...msg }`, the sender's own tag wins
OnSignal_TrustsSenderTag(c, t, msgId) ==
    /\ CanReceive(c)
    /\ role[c] # "null"
    /\ out' = IF role[c] = "subscriber" /\ subscriberId[c] # NoId
              THEN safeSend(readyState, publisher,
                       [type |-> t,
                        subscriberId |-> IF msgId # NoId THEN msgId
                                         ELSE subscriberId[c],
                        from |-> "subscriber", to |-> "publisher"])
              ELSE IF role[c] = "publisher"
              THEN LET fwd == [type |-> t, subscriberId |-> msgId,
                               from |-> "publisher", to |-> "subscriber"]
                   IN IF msgId # NoId
                      THEN safeSend(readyState, SubGet(subscribers, msgId), fwd)
                      ELSE Broadcast(readyState, subscribers, fwd)
              ELSE <<>>
    /\ Serve("message", c, [type |-> t, subscriberId |-> msgId])
    /\ UNCHANGED <<readyState, role, subscriberId, publisher, subscribers,
                   subscriberIdCounter, issued>>

\* offer / answer / candidate (and every other type): the forwarding branches.
\* msgId is the subscriberId the sender wrote into the message.
OnSignal(c, t, msgId) ==
    /\ CanReceive(c)
    /\ role[c] # "null"
    /\ out' = IF role[c] = "subscriber" /\ subscriberId[c] # NoId
              THEN safeSend(readyState, publisher,
                       [type |-> t, subscriberId |-> subscriberId[c],
                        from |-> "subscriber", to |-> "publisher"])
              ELSE IF role[c] = "publisher"
              THEN LET fwd == [type |-> t, subscriberId |-> msgId,
                               from |-> "publisher", to |-> "subscriber"]
                   IN IF msgId # NoId
                      THEN safeSend(readyState, SubGet(subscribers, msgId), fwd)
                      ELSE Broadcast(readyState, subscribers, fwd)
              ELSE <<>>
    /\ Serve("message", c, [type |-> t, subscriberId |-> msgId])
    /\ UNCHANGED <<readyState, role, subscriberId, publisher, subscribers,
                   subscriberIdCounter, issued>>

\* ws.on('close')
OnClose(c) ==
    /\ CanReceive(c)
    /\ readyState' = [readyState EXCEPT ![c] = "CLOSED"]
    /\ IF role[c] = "publisher" /\ publisher = c
       THEN /\ publisher' = Null
            /\ subscribers' = subscribers
            /\ out' = Broadcast(readyState', subscribers,
                          [type |-> "peer", event |-> "disconnected",
                           role |-> "publisher"])
       ELSE IF role[c] = "subscriber" /\ subscriberId[c] # NoId
       THEN /\ subscribers' = SubDelete(subscribers, subscriberId[c])
            /\ publisher' = publisher
            /\ out' = safeSend(readyState', publisher,
                          [type |-> "peer", event |-> "disconnected",
                           role |-> "subscriber",
                           subscriberId |-> subscriberId[c]])
       ELSE /\ out' = <<>>
            /\ UNCHANGED <<publisher, subscribers>>
    /\ Serve("close", c, [type |-> "none"])
    /\ UNCHANGED <<role, subscriberId, subscriberIdCounter, issued>>

\* the subscriberId values a sender may write into a message
MsgIds == {NoId, BogusId} \cup {issued[i] : i \in 1..Len(issued)}

NextRelay ==
    \/ \E c \in Conns : OnConnection(c)
    \/ \E c \in Conns : OnInvalidJson(c)
    \/ \E c \in Conns, r \in HelloRoles : OnHelloInvalid(c, r)
    \/ \E c \in Conns : OnHelloPublisher(c)
    \/ \E c \in Conns, now \in 0..MaxTime : OnHelloSubscriber(c, now)
    \/ \E c \in Conns, t \in SignalTypes \cup {"viewer-ready", "control", "control-status"} :
           OnBeforeHello(c, t)
    \/ \E c \in Conns : OnViewerReady(c)
    \/ \E c \in Conns : OnControl(c)
    \/ \E c \in Conns, id \in MsgIds : OnControlStatus(c, id)
    \/ \E c \in Conns, t \in SignalTypes, id \in MsgIds : OnSignal(c, t, id)
    \/ \E c \in Conns : OnClose(c)

\* ======================================================= subscriber client
\* The native engine is outside the source: an awaited native call may settle
\* (resolve or reject) at any later time, or never; a handler suspended at an
\* await resumes when its call settles, whatever happened to pc meanwhile.

InitSub ==
    /\ pc = Null
    /\ remoteDescriptionSet = FALSE
    /\ clientSubscriberId = NoId
    /\ offerCount = 0
    /\ pendingCandidates = <<>>
    /\ handles = <<>>
    /\ tasks = {}
    /\ arrivals = <<>>
    /\ applied = <<>>
    /\ answers = <<>>
    /\ acked = FALSE

\* makePC: a fresh RTCPeerConnection.  connectionState "new" stands for every
\* value the code treats alike (new, connecting, connected, disconnected).
makePC == [connectionState |-> "new", remoteDescription |-> 0]

\* shouldReuse (subscriber.ts 34-37)
shouldReuse ==
    /\ pc # Null
    /\ handles[pc].connectionState # "closed"
    /\ handles[pc].connectionState # "failed"

\* addIceToPC(targetPC, ice): the call, recorded with what it found
addIceToPC(targetPC, ice) ==
    [cand |-> ice, handle |-> targetPC, current |-> pc,
     described |-> handles[targetPC].remoteDescription # 0,
     closed |-> handles[targetPC].connectionState = "closed"]

\* ws.onmessage, hello ack (subscriber.js 273-287)
OnHelloAck(ok, id) ==
    /\ ~acked
    /\ acked' = TRUE
    /\ clientSubscriberId' = IF ok /\ id # NoId THEN id ELSE clientSubscriberId
    /\ UNCHANGED <<pc, remoteDescriptionSet, offerCount, pendingCandidates,
                   handles, tasks, arrivals, applied, answers>>
    /\ UNCHANGED relayVars

\* onOffer up to its first await (subscriber.ts 28-70)
OnOffer ==
    /\ offerCount < MaxOffers
    /\ offerCount' = offerCount + 1
    /\ LET reuse == shouldReuse
           closedOld == IF pc # Null
                        THEN [handles EXCEPT ![pc].connectionState = "closed"]
                        ELSE handles
           hs == IF reuse THEN handles ELSE Append(closedOld, makePC)
           thisPC == IF reuse THEN pc ELSE Len(hs)
       IN /\ handles' = hs
          /\ pc' = thisPC
          /\ pendingCandidates' = IF reuse THEN pendingCandidates ELSE <<>>
          /\ remoteDescriptionSet' = FALSE
          /\ tasks' = tasks \cup {[kind |-> "offer", n |-> offerCount + 1,
                                    thisPC |-> thisPC, at |-> "setRemoteDescription",
                                    toApply |-> <<>>, callOnClosed |-> FALSE]}
    /\ UNCHANGED <<clientSubscriberId, arrivals, applied, answers, acked>>
    /\ UNCHANGED relayVars

\* the next step of a handler whose drain loop holds `rest`: either the next
\* addIceToPC call (and the await on it), or what follows the loop
\* (a native call made on a handle that is already closed rejects)
OfferAfterDrain(t, rest) ==
    IF rest = <<>>
    THEN [t EXCEPT !.at = "createAnswer", !.toApply = <<>>,
                   !.callOnClosed = handles[t.thisPC].connectionState = "closed"]
    ELSE [t EXCEPT !.at = "addIceToPC", !.toApply = Tail(rest)]

\* A plausible slip: the drain takes the buffer without emptying it
OfferDescriptionApplied_KeepBuffer(t) ==
    /\ t \in tasks /\ t.kind = "offer" /\ t.at = "setRemoteDescription"
    /\ handles' = [handles EXCEPT ![t.thisPC].remoteDescription = t.n]
    /\ remoteDescriptionSet' = TRUE
    /\ pendingCandidates' = pendingCandidates
    /\ applied' = IF pendingCandidates = <<>> THEN applied
                  ELSE Append(applied,
                         [addIceToPC(t.thisPC, Head(pendingCandidates))
                            EXCEPT !.described = TRUE])
    /\ tasks' = (tasks \ {t}) \cup {OfferAfterDrain(t, pendingCandidates)}
    /\ UNCHANGED <<pc, clientSubscriberId, offerCount, arrivals, answers, acked>>
    /\ UNCHANGED relayVars

\* await thisPC.setRemoteDescription(sdp) resolves (subscriber.ts 70-78)
OfferDescriptionApplied(t) ==
    /\ t \in tasks /\ t.kind = "offer" /\ t.at = "setRemoteDescription"
    /\ handles' = [handles EXCEPT ![t.thisPC].remoteDescription = t.n]
    /\ remoteDescriptionSet' = TRUE
    /\ pendingCandidates' = <<>>
    /\ applied' = IF pendingCandidates = <<>> THEN applied
                  ELSE Append(applied,
                         [addIceToPC(t.thisPC, Head(pendingCandidates))
                            EXCEPT !.described = TRUE])
    /\ tasks' = (tasks \ {t}) \cup {OfferAfterDrain(t, pendingCandidates)}
    /\ UNCHANGED <<pc, clientSubscriberId, offerCount, arrivals, answers, acked>>
    /\ UNCHANGED relayVars

\* A plausible slip: the flag raised before the await, so that a rejected
\* setRemoteDescription leaves remoteDescriptionSet true
OfferRejected_GateLeftOpen(t) ==
    /\ t \in tasks /\ t.kind = "offer"
    /\ t.at \in {"setRemoteDescription", "createAnswer", "setLocalDescription"}
    /\ tasks' = (tasks \ {t}) \cup {[t EXCEPT !.at = "rejected"]}
    /\ remoteDescriptionSet' = TRUE
    /\ UNCHANGED <<pc, clientSubscriberId, offerCount,
                   pendingCandidates, handles, arrivals, applied, answers, acked>>
    /\ UNCHANGED relayVars

\* an awaited setRemoteDescription / createAnswer / setLocalDescription
\* rejects: the handler throws and ends (the ended invocation is kept in
\* tasks, marked "rejected", as history)
OfferRejected(t) ==
    /\ t \in tasks /\ t.kind = "offer"
    /\ t.at \in {"setRemoteDescription", "createAnswer", "setLocalDescription"}
    /\ tasks' = (tasks \ {t}) \cup {[t EXCEPT !.at = "rejected"]}
    /\ UNCHANGED <<pc, remoteDescriptionSet, clientSubscriberId, offerCount,
                   pendingCandidates, handles, arrivals, applied, answers, acked>>
    /\ UNCHANGED relayVars

\* await addIceToPC(thisPC, c) returns inside onOffer's loop (subscriber.ts 76-78);
\* addIceToPC catches a rejection, so either outcome continues the loop
OfferDrainNext(t) ==
    /\ t \in tasks /\ t.kind = "offer" /\ t.at = "addIceToPC"
    /\ applied' = IF t.toApply = <<>> THEN applied
                  ELSE Append(applied, addIceToPC(t.thisPC, Head(t.toApply)))
    /\ tasks' = (tasks \ {t}) \cup {OfferAfterDrain(t, t.toApply)}
    /\ UNCHANGED <<pc, remoteDescriptionSet, clientSubscriberId, offerCount,
                   pendingCandidates, handles, arrivals, answers, acked>>
    /\ UNCHANGED relayVars

\* await thisPC.createAnswer() resolves (subscriber.ts 78-79)
OfferAnswerCreated(t) ==
    /\ t \in tasks /\ t.kind = "offer" /\ t.at = "createAnswer"
    /\ ~t.callOnClosed
    /\ tasks' = (tasks \ {t}) \cup
                 {[t EXCEPT !.at = "setLocalDescription",
                            !.callOnClosed = handles[t.thisPC].connectionState = "closed"]}
    /\ UNCHANGED <<pc, remoteDescriptionSet, clientSubscriberId, offerCount,
                   pendingCandidates, handles, arrivals, applied, answers, acked>>
    /\ UNCHANGED relayVars

\* A plausible slip: the answer taken from the global pc instead of thisPC
OfferAnswerSent_UsesCurrentPC(t) ==
    /\ t \in tasks /\ t.kind = "offer" /\ t.at = "setLocalDescription"
    /\ ~t.callOnClosed
    /\ answers' = Append(answers,
                     [type |-> "answer", subscriberId |-> clientSubscriberId,
                      offer |-> t.n, handle |-> pc,
                      appliedBefore |-> Len(applied)])
    /\ tasks' = tasks \ {t}
    /\ UNCHANGED <<pc, remoteDescriptionSet, clientSubscriberId, offerCount,
                   pendingCandidates, handles, arrivals, applied, acked>>
    /\ UNCHANGED relayVars

\* await thisPC.setLocalDescription(answer) resolves; the answer is sent
\* (subscriber.ts 79-89)
OfferAnswerSent(t) ==
    /\ t \in tasks /\ t.kind = "offer" /\ t.at = "setLocalDescription"
    /\ ~t.callOnClosed
    /\ answers' = Append(answers,
                     [type |-> "answer", subscriberId |-> clientSubscriberId,
                      offer |-> t.n, handle |-> t.thisPC,
                      appliedBefore |-> Len(applied)])
    /\ tasks' = tasks \ {t}
    /\ UNCHANGED <<pc, remoteDescriptionSet, clientSubscriberId, offerCount,
                   pendingCandidates, handles, arrivals, applied, acked>>
    /\ UNCHANGED relayVars

\* ws.onmessage, candidate (subscriber.js 289-300), with drainPendingCandidates
\* up to its first await (subscriber.ts 91-98)
OnCandidate ==
    /\ Len(arrivals) < MaxCands
    /\ LET c == Len(arrivals) + 1
           queue == Append(pendingCandidates, c)
           ready == pc # Null /\ remoteDescriptionSet
       IN /\ arrivals' = Append(arrivals,
                             [pc |-> pc, remoteDescriptionSet |-> remoteDescriptionSet,
                              offers |-> offerCount])
          /\ IF ready
             THEN /\ pendingCandidates' = <<>>
                  /\ applied' = Append(applied, addIceToPC(pc, Head(queue)))
                  /\ tasks' = tasks \cup {[kind |-> "drain", n |-> c, thisPC |-> Null,
                                            at |-> "addIceToPC",
                                            toApply |-> Tail(queue),
                                            callOnClosed |-> FALSE]}
             ELSE /\ pendingCandidates' = queue
                  /\ UNCHANGED <<applied, tasks>>
    /\ UNCHANGED <<pc, remoteDescriptionSet, clientSubscriberId, offerCount,
                   handles, answers, acked>>
    /\ UNCHANGED relayVars

\* await addIceToPC(pc, c) returns inside drainPendingCandidates (subscriber.ts 96)
DrainNext(t) ==
    /\ t \in tasks /\ t.kind = "drain" /\ t.at = "addIceToPC"
    /\ IF t.toApply = <<>>
       THEN /\ tasks' = tasks \ {t}
            /\ UNCHANGED applied
       ELSE /\ applied' = Append(applied, addIceToPC(pc, Head(t.toApply)))
            /\ tasks' = (tasks \ {t}) \cup {[t EXCEPT !.toApply = Tail(t.toApply)]}
    /\ UNCHANGED <<pc, remoteDescriptionSet, clientSubscriberId, offerCount,
                   pendingCandidates, handles, arrivals, answers, acked>>
    /\ UNCHANGED relayVars

\* the native engine reports the live handle's connection as failed
ConnectionFailed ==
    /\ pc # Null
    /\ handles[pc].connectionState = "new"
    /\ handles' = [handles EXCEPT ![pc].connectionState = "failed"]
    /\ UNCHANGED <<pc, remoteDescriptionSet, clientSubscriberId, offerCount,
                   pendingCandidates, tasks, arrivals, applied, answers, acked>>
    /\ UNCHANGED relayVars

NextSub ==
    \/ \E ok \in BOOLEAN, id \in {NoId, generateSubscriberId(0, 0)} : OnHelloAck(ok, id)
    \/ OnOffer
    \/ OnCandidate
    \/ \E t \in tasks : OfferDescriptionApplied(t)
    \/ \E t \in tasks : OfferRejected(t)
    \/ \E t \in tasks : OfferDrainNext(t)
    \/ \E t \in tasks : OfferAnswerCreated(t)
    \/ \E t \in tasks : OfferAnswerSent(t)
    \/ \E t \in tasks : DrainNext(t)
    \/ ConnectionFailed

Init == InitRelay /\ InitSub

SpecRelay == Init /\ [][NextRelay]_vars

SpecSub == Init /\ [][NextSub]_vars

\* a suspended handler resumes: its awaited call settles
TaskStep(t) ==
    \/ OfferDescriptionApplied(t)
    \/ OfferRejected(t)
    \/ OfferDrainNext(t)
    \/ OfferAnswerCreated(t)
    \/ OfferAnswerSent(t)
    \/ DrainNext(t)

\* The subscriber client with a native engine that settles every awaited
\* call (by resolving or by rejecting), after which the event loop resumes
\* the handler.
SpecSubFair == SpecSub /\ WF_vars(\E t \in tasks : TaskStep(t))
\* ------------------------------------------------- discovery scenario
\* The relay driven by clients that do what the subscriber page does: a
\* client sends one hello when its socket opens, and a subscriber client
\* answers the hello ack with viewer-ready and then waits for an offer.  The
\* ack is handled before the relay serves its next event.  Sockets open and
\* close whenever they like.

\* the relay has just acked a hello subscriber: that client owes viewer-ready
AckPending ==
    /\ ev.kind = "message"
    /\ ev.msg = [type |-> "hello", role |-> "subscriber"]

\* ws 'open' listener of the subscriber page: hello, role subscriber
ClientHello(c, now) ==
    /\ ~AckPending
    /\ role[c] = "null"
    /\ OnHelloSubscriber(c, now)

\* ws.onmessage of the subscriber page, hello ack: viewer-ready
ClientViewerReady(c) ==
    /\ AckPending
    /\ ev.from = c
    /\ OnViewerReady(c)

\* a publisher client registers
PublisherHello(c) ==
    /\ ~AckPending
    /\ role[c] = "null"
    /\ OnHelloPublisher(c)

NextDiscovery ==
    \/ \E c \in Conns : ~AckPending /\ OnConnection(c)
    \/ \E c \in Conns, now \in 0..MaxTime : ClientHello(c, now)
    \/ \E c \in Conns : ClientViewerReady(c)
    \/ \E c \in Conns : PublisherHello(c)
    \/ \E c \in Conns : ~AckPending /\ OnClose(c)

\* Clients act on what they received; nothing obliges a socket to open or
\* to close.
SpecDiscovery ==
    /\ Init
    /\ [][NextDiscovery]_vars
    /\ WF_vars(\E c \in Conns : ClientViewerReady(c))
    /\ WF_vars(\E c \in Conns, now \in 0..MaxTime : ClientHello(c, now) \/ PublisherHello(c))
\* ====================================================== relay properties
Range(q) == {q[i] : i \in 1..Len(q)}
IssuedSet == {issued[i] : i \in 1..Len(issued)}
IsMessage(t) == ev.kind = "message" /\ ev.msg.type = t
HelloPublisherStep ==
    /\ ev'.kind = "message"
    /\ ev'.msg = [type |-> "hello", role |-> "publisher"]
    /\ vars' # vars
Registry == <<publisher, subscribers, subscriberIdCounter, role, subscriberId>>

\* C1: at most one connection is installed as publisher, and a hello
\* publisher from a connection other than the holder evicts exactly the prior
\* holder (error notice sent to it, then close 1011), installs the claimant
\* and answers the claimant with hello ok:true.
C1_TakeoverEvictsPrior ==
    [][(HelloPublisherStep /\ publisher # Null /\ publisher # ev'.from) =>
          LET p == publisher
              c == ev'.from
          IN /\ publisher' = c
             /\ Len(out') >= 3
             /\ out'[1] = [op |-> "send", to |-> p,
                           msg |-> [type |-> "error",
                                    error |-> "publisher role taken; disconnecting"]]
             /\ out'[2] = [op |-> "close", to |-> p,
                           msg |-> [type |-> "close", code |-> 1011]]
             /\ out'[3] = [op |-> "send", to |-> c,
                           msg |-> [type |-> "hello", ok |-> TRUE,
                                    role |-> "publisher"]]
             /\ \A i \in 1..Len(out') : out'[i].op = "close" => out'[i].to = p
             /\ readyState'[p] # "OPEN"
    ]_vars

\* a takeover has happened: the prior holder was closed by the relay
C1_TakeoverSeen ==
    /\ IsMessage("hello") /\ ev.msg.role = "publisher"
    /\ \E i \in 1..Len(out) : out[i].op = "close"

\* C5: every generated subscriberId differs from every id generated before;
\* the subscriber map never holds two entries under one key, and its keys
\* are generated ids.
C5_IdsUnique ==
    /\ \A i, j \in 1..Len(issued) : i # j => issued[i] # issued[j]
    /\ \A i, j \in 1..Len(subscribers) :
           i # j => subscribers[i].sid # subscribers[j].sid
    /\ SubKeys(subscribers) \subseteq IssuedSet

\* two ids generated at the same clock value, the first one's owner gone
C5_TwoIdsSameClock ==
    /\ Len(issued) = 2
    /\ issued[1][2] = issued[2][2]
    /\ SubKeys(subscribers) = {issued[2]}
    /\ \E c \in Conns : subscriberId[c] = issued[1] /\ readyState[c] = "CLOSED"

PublisherTraffic == SignalTypes \cup {"control-status"}

\* C6: an offer/answer/candidate/control-status from the registered
\* publisher naming a key of the subscriber map is delivered to the
\* connection registered under that key and to no other connection.
C6_TargetedDelivery ==
    (/\ ev.kind = "message"
     /\ ev.msg.type \in PublisherTraffic
     /\ role[ev.from] = "publisher"
     /\ publisher = ev.from
     /\ SubHas(subscribers, ev.msg.subscriberId))
    => /\ Len(out) = 1
       /\ out[1].op = "send"
       /\ out[1].to = SubGet(subscribers, ev.msg.subscriberId)
       /\ out[1].msg.type = ev.msg.type

\* a role-violating envelope: control / viewer-ready by a publisher,
\* control-status by a subscriber
RoleViolation ==
    /\ ev.kind = "message"
    /\ \/ ev.msg.type \in {"control", "viewer-ready"} /\ role[ev.from] = "publisher"
       \/ ev.msg.type = "control-status" /\ role[ev.from] = "subscriber"

RoleViolationAnswer ==
    [op |-> "send", to |-> ev.from,
     msg |-> [type |-> "error",
              error |-> CASE ev.msg.type = "control" -> "only subscriber can send control"
                          [] ev.msg.type = "viewer-ready" -> "only subscribers can send viewer-ready"
                          [] OTHER -> "only publisher can send control-status"]]

\* C7 as stated: a role-violating envelope is always answered with an error
\* to the sender, forwarded to nobody, and the sender's connection stays open.
C7_RoleViolationAlwaysAnswered ==
    RoleViolation => /\ out = <<RoleViolationAnswer>>
                     /\ readyState[ev.from] = "OPEN"

\* C7 amended: nothing is ever forwarded and the handler leaves the sender's
\* ready state and the registry alone; the error envelope is sent to the
\* sender exactly when the sender's socket is OPEN (a socket the relay has
\* already closed on a takeover gets no answer).
C7_RoleViolationRejected ==
    [][(RoleViolation' /\ vars' # vars) =>
          /\ out' = IF readyState[ev'.from] = "OPEN"
                    THEN <<RoleViolationAnswer'>> ELSE <<>>
          /\ readyState' = readyState
          /\ Registry' = Registry
          /\ issued' = issued
    ]_vars

\* a publisher whose socket is open sent control and got the error
C7_PublisherControlRejected ==
    /\ IsMessage("control")
    /\ role[ev.from] = "publisher"
    /\ publisher = ev.from
    /\ Len(subscribers) > 0
    /\ out = <<RoleViolationAnswer>>

RegisteredSubscriber(c) == role[c] = "subscriber" /\ subscriberId[c] # NoId

\* C8: viewer-ready / control from a registered subscriber: with no
\* publisher registered the sender gets 'no publisher connected' and nothing
\* is forwarded; with a publisher registered the envelope is forwarded to it
\* and no error is sent.
C8_NoPublisherReported ==
    (/\ ev.kind = "message"
     /\ ev.msg.type \in {"viewer-ready", "control"}
     /\ RegisteredSubscriber(ev.from))
    => IF publisher = Null
       THEN out = <<[op |-> "send", to |-> ev.from,
                     msg |-> [type |-> "error", error |-> "no publisher connected"]]>>
       ELSE /\ Len(out) = 1
            /\ out[1].op = "send"
            /\ out[1].to = publisher
            /\ out[1].msg.type = ev.msg.type

\* C9: when the connection in the publisher slot closes, every registered
\* subscriber is sent peer disconnected (role publisher) and the slot becomes
\* empty, whatever hello messages the closing connection sent before.
C9_PublisherCloseClearsSlot ==
    [][(ev'.kind = "close" /\ vars' # vars /\ publisher = ev'.from) =>
          /\ publisher' = Null
          /\ out' = Broadcast(readyState', subscribers',
                        [type |-> "peer", event |-> "disconnected",
                         role |-> "publisher"])
    ]_vars
\* the connections the subscriber map refers to
SubConns == {subscribers[i].ws : i \in 1..Len(subscribers)}

\* C11: a connection's role, once set by a hello, never changes; its
\* subscriberId, once assigned, never changes; and no connection is at once
\* in the publisher slot and in the subscriber map.
C11_RoleImmutable ==
    [][\A c \in Conns :
          /\ role[c] # "null" => role'[c] = role[c]
          /\ subscriberId[c] # NoId => subscriberId'[c] = subscriberId[c]
          /\ ~(publisher' = c /\ c \in SubConns')
    ]_vars

\* C12: a connection whose close event has been handled is referenced by
\* neither the publisher slot nor any entry of the subscriber map.
C12_ClosedConnectionUnregistered ==
    \A c \in Conns :
        readyState[c] = "CLOSED" => publisher # c /\ c \notin SubConns

\* the message types other than hello
OtherTypes == SignalTypes \cup {"viewer-ready", "control", "control-status"}

\* the error envelope for a malformed message / a message before hello
ProtocolErrorAnswer ==
    [op |-> "send", to |-> ev.from,
     msg |-> [type |-> "error",
              error |-> IF ev.msg.type = "invalid-json" THEN "invalid json"
                        ELSE "must send hello first"]]

\* C13 as stated: a malformed message, and a non-hello message from a
\* connection without role, always gets exactly one error envelope back and
\* the connection is open afterwards.
C13_ProtocolErrorAlwaysAnswered ==
    (/\ ev.kind = "message"
     /\ \/ ev.msg.type = "invalid-json"
        \/ ev.msg.type \in OtherTypes /\ role[ev.from] = "null")
    => /\ out = <<ProtocolErrorAnswer>>
       /\ readyState[ev.from] = "OPEN"

\* C13 amended: such a message is forwarded to nobody and leaves the
\* registry, the sender's role and every socket's ready state unchanged; a
\* message before hello always gets its one error envelope (the sender is
\* open), a malformed message gets it exactly when the sender's socket is
\* OPEN (a socket the relay closed on a takeover gets no answer).
C13_ProtocolErrorRejected ==
    [][(/\ vars' # vars
        /\ ev'.kind = "message"
        /\ \/ ev'.msg.type = "invalid-json"
           \/ ev'.msg.type \in OtherTypes /\ role[ev'.from] = "null") =>
          /\ out' = IF readyState[ev'.from] = "OPEN"
                    THEN <<ProtocolErrorAnswer'>> ELSE <<>>
          /\ ev'.msg.type # "invalid-json" => readyState[ev'.from] = "OPEN"
          /\ readyState' = readyState
          /\ Registry' = Registry
          /\ issued' = issued
    ]_vars

\* an offer sent before hello, with a publisher and a subscriber registered,
\* was answered with the error and went nowhere else
C13_BeforeHelloAnswered ==
    /\ IsMessage("offer")
    /\ role[ev.from] = "null"
    /\ publisher # Null /\ readyState[publisher] = "OPEN"
    /\ Len(subscribers) > 0
    /\ out = <<ProtocolErrorAnswer>>

InvalidHello == IsMessage("hello") /\ ~isRole(ev.msg.role)

InvalidHelloAnswer ==
    [op |-> "send", to |-> ev.from,
     msg |-> [type |-> "hello", ok |-> FALSE, error |-> "invalid role"]]

\* C14 as stated: a hello with an unknown role is always answered with
\* hello ok:false to the sender.
C14_InvalidHelloAlwaysAnswered == InvalidHello => out = <<InvalidHelloAnswer>>

\* C14 amended: a hello with an unknown role changes nothing (slot, map,
\* counter, roles, ids, ready states), evicts nobody and notifies no peer;
\* hello ok:false is sent to the sender exactly when its socket is OPEN.
C14_InvalidHelloChangesNothing ==
    [][(InvalidHello' /\ vars' # vars) =>
          /\ out' = IF readyState[ev'.from] = "OPEN"
                    THEN <<InvalidHelloAnswer'>> ELSE <<>>
          /\ readyState' = readyState
          /\ Registry' = Registry
          /\ issued' = issued
    ]_vars

\* a registered subscriber sent an invalid hello while another connection
\* holds the publisher slot; it got ok:false
C14_InvalidHelloFromSubscriber ==
    /\ InvalidHello
    /\ role[ev.from] = "subscriber"
    /\ publisher # Null /\ publisher # ev.from /\ readyState[publisher] = "OPEN"
    /\ out = <<InvalidHelloAnswer>>
\* what a subscriber may have forwarded to the publisher
SubscriberTraffic == SignalTypes \cup {"viewer-ready", "control"}

\* C15: every envelope forwarded from a subscriber goes to the publisher slot
\* and carries the id the relay assigned to the sending connection, which no
\* other connection was assigned, whatever subscriberId the sender wrote.
C15_ForwardTaggedWithAssignedId ==
    (/\ ev.kind = "message"
     /\ ev.msg.type \in SubscriberTraffic
     /\ role[ev.from] = "subscriber")
    => /\ subscriberId[ev.from] \in IssuedSet
       /\ \A d \in Conns \ {ev.from} : subscriberId[d] # subscriberId[ev.from]
       /\ \A i \in 1..Len(out) :
              out[i].msg.type = ev.msg.type =>
                 /\ out[i].op = "send"
                 /\ out[i].to = publisher
                 /\ out[i].msg.from = "subscriber"
                 /\ out[i].msg.subscriberId = subscriberId[ev.from]

\* a subscriber wrote another subscriber's id into its offer; the publisher
\* received the offer tagged with the sender's id
C15_SpoofedTagReplaced ==
    /\ IsMessage("offer")
    /\ role[ev.from] = "subscriber"
    /\ ev.msg.subscriberId \in IssuedSet \ {subscriberId[ev.from]}
    /\ publisher \notin {Null, ev.from}
    /\ Len(out) = 1
    /\ out[1].to = publisher
    /\ out[1].msg.subscriberId = subscriberId[ev.from]

\* copies of the served message that connection c was sent
Copies(c) ==
    Cardinality({i \in 1..Len(out) :
                    /\ out[i].op = "send"
                    /\ out[i].to = c
                    /\ out[i].msg.type = ev.msg.type})

\* C16: an offer/answer/candidate/control-status without subscriberId from
\* the registered publisher reaches every connection of the subscriber map
\* exactly once and no other connection.
C16_BroadcastReachesEverySubscriber ==
    (/\ ev.kind = "message"
     /\ ev.msg.type \in PublisherTraffic
     /\ role[ev.from] = "publisher"
     /\ publisher = ev.from
     /\ ev.msg.subscriberId = NoId)
    => \A c \in Conns : Copies(c) = IF c \in SubConns THEN 1 ELSE 0

\* C17: a forward that misses is dropped silently: a signaling message of a
\* subscriber while the publisher slot is empty, and publisher traffic naming
\* a subscriberId that is not a key of the map, send nothing to anybody and
\* change neither the registry nor any socket.
C17_MissedForwardDropped ==
    [][(/\ vars' # vars
        /\ ev'.kind = "message"
        /\ \/ /\ ev'.msg.type \in SignalTypes
              /\ role[ev'.from] = "subscriber"
              /\ publisher = Null
           \/ /\ ev'.msg.type \in PublisherTraffic
              /\ role[ev'.from] = "publisher"
              /\ ev'.msg.subscriberId # NoId
              /\ ~SubHas(subscribers, ev'.msg.subscriberId)) =>
          /\ out' = <<>>
          /\ readyState' = readyState
          /\ Registry' = Registry
          /\ issued' = issued
    ]_vars

\* the publisher named the id of a subscriber that has gone, while another
\* subscriber is registered; nothing was sent
C17_GoneSubscriberNamed ==
    /\ IsMessage("control-status")
    /\ role[ev.from] = "publisher" /\ publisher = ev.from
    /\ readyState[ev.from] = "OPEN"
    /\ ev.msg.subscriberId \in IssuedSet \ SubKeys(subscribers)
    /\ Len(subscribers) > 0
    /\ out = <<>>

PeerNotice(to, event, r) ==
    [op |-> "send", to |-> to,
     msg |-> [type |-> "peer", event |-> event, role |-> r]]
PeerNoticeId(to, event, id) ==
    [op |-> "send", to |-> to,
     msg |-> [type |-> "peer", event |-> event, role |-> "subscriber",
              subscriberId |-> id]]

\* C18: a subscriber's registration is announced to the registered
\* publisher; a publisher's registration is announced to every connection of
\* the subscriber map; and when a connection closes, every id the map holds
\* for it is announced to the registered publisher as disconnected.
C18_PeerNotifications ==
    [][(vars' # vars) =>
          /\ (ev'.kind = "message" /\ ev'.msg = [type |-> "hello", role |-> "subscriber"]
                 /\ publisher # Null)
              => PeerNoticeId(publisher, "connected", subscriberId'[ev'.from])
                    \in Range(out')
          /\ (ev'.kind = "message" /\ ev'.msg = [type |-> "hello", role |-> "publisher"])
              => \A c \in SubConns : PeerNotice(c, "connected", "publisher") \in Range(out')
          /\ (ev'.kind = "close" /\ publisher \notin {Null, ev'.from})
              => \A i \in 1..Len(subscribers) :
                     subscribers[i].ws = ev'.from =>
                        PeerNoticeId(publisher, "disconnected", subscribers[i].sid)
                           \in Range(out')
    ]_vars

\* C19: publisher traffic (offer, answer, candidate, control-status) from a
\* connection that is not in the publisher slot is forwarded to nobody.
C19_EvictedHolderNotForwarded ==
    (/\ ev.kind = "message"
     /\ ev.msg.type \in PublisherTraffic
     /\ publisher # ev.from)
    => \A i \in 1..Len(out) :
          ~(/\ out[i].op = "send"
            /\ out[i].msg.type = ev.msg.type
            /\ out[i].msg.from = "publisher")
\* C24: when the close event of a connection the relay evicted in a takeover
\* (its socket is CLOSING) is handled, the publisher slot keeps the new
\* publisher, the subscriber map is unchanged and nothing is sent.
C24_EvictedCloseChangesNothing ==
    [][(ev'.kind = "close" /\ vars' # vars /\ readyState[ev'.from] = "CLOSING") =>
          /\ publisher # ev'.from
          /\ publisher' = publisher
          /\ subscribers' = subscribers
          /\ out' = <<>>
    ]_vars

\* the close of an evicted publisher was handled while the new publisher and
\* a subscriber were registered: nothing was sent
C24_EvictedCloseSeen ==
    /\ ev.kind = "close"
    /\ role[ev.from] = "publisher"
    /\ publisher \notin {Null, ev.from} /\ readyState[publisher] = "OPEN"
    /\ Len(subscribers) > 0
    /\ out = <<>>
\* what the relay sends down to a subscriber connection
DownstreamTypes == PublisherTraffic \cup {"peer"}

\* C25: whenever the relay sends an offer, answer, candidate, control-status
\* or peer envelope to a subscriber connection, it has sent that connection
\* a hello ack carrying a subscriberId before: in an earlier handler run (the
\* connection's subscriberId is set) or earlier in the same run.
C25_AckBeforeForwards ==
    [][\A i \in 1..Len(out') :
          (/\ out'[i].op = "send"
           /\ out'[i].msg.type \in DownstreamTypes
           /\ \/ role'[out'[i].to] = "subscriber"
              \/ out'[i].to \in SubConns')
          => \/ subscriberId[out'[i].to] # NoId
             \/ \E j \in 1..(i - 1) :
                   /\ out'[j].op = "send"
                   /\ out'[j].to = out'[i].to
                   /\ out'[j].msg = [type |-> "hello", ok |-> TRUE,
                                     role |-> "subscriber",
                                     subscriberId |-> subscriberId'[out'[i].to]]
    ]_vars

\* a broadcast offer of the publisher reached a subscriber, which had been
\* given its id before
C25_OfferAfterAck ==
    /\ IsMessage("offer")
    /\ publisher = ev.from /\ role[ev.from] = "publisher"
    /\ \E i \in 1..Len(out) :
          /\ out[i].op = "send" /\ out[i].msg.type = "offer"
          /\ out[i].to # ev.from
          /\ role[out[i].to] = "subscriber"
          /\ subscriberId[out[i].to] \in SubKeys(subscribers)
\* publisher p has just registered while subscriber c, registered before, is
\* still connected
PublisherJoinedAfter(c, p) ==
    /\ ev.kind = "message"
    /\ ev.msg = [type |-> "hello", role |-> "publisher"]
    /\ ev.from = p /\ publisher = p /\ readyState[p] = "OPEN"
    /\ c # p
    /\ role[c] = "subscriber" /\ readyState[c] = "OPEN"
    /\ SubGet(subscribers, subscriberId[c]) = c

\* the relay sends p a viewer-ready or peer connected envelope carrying
\* c's subscriberId
ToldAbout(c, p) ==
    \E i \in 1..Len(out) :
        /\ out[i].op = "send" /\ out[i].to = p
        /\ out[i].msg.type \in {"viewer-ready", "peer"}
        /\ out[i].msg.type = "peer" => out[i].msg.event = "connected"
        /\ "subscriberId" \in DOMAIN out[i].msg
        /\ out[i].msg.subscriberId = subscriberId[c]

\* C26: a publisher that registers while a subscriber is already registered
\* (and has sent its viewer-ready) is eventually sent a viewer-ready or
\* peer connected envelope carrying that subscriber's id, unless the
\* subscriber disconnects or the publisher leaves the slot first.
C26_WaitingSubscriberDiscovered ==
    \A c, p \in Conns :
        PublisherJoinedAfter(c, p)
           ~> (ToldAbout(c, p) \/ readyState[c] # "OPEN" \/ publisher # p)
\* ================================================= subscriber properties
AppliedCands == {applied[i].cand : i \in 1..Len(applied)}
Buffered == Range(pendingCandidates) \cup UNION {Range(t.toApply) : t \in tasks}

\* C2: no candidate is passed to addIceCandidate on a handle that a newer
\* handle has replaced, and no candidate that arrived while an earlier handle
\* was current is applied to the handle that replaced it.
C2_NoCandidateOnSupersededHandle ==
    \A i \in 1..Len(applied) :
        /\ applied[i].handle = applied[i].current
        /\ arrivals[applied[i].cand].pc # Null
              => applied[i].handle <= arrivals[applied[i].cand].pc

\* C3: a candidate is applied to a handle only after setRemoteDescription
\* completed on that handle, and remoteDescriptionSet implies that the
\* current handle's remote description was applied.
C3_AppliedOnlyAfterDescription ==
    /\ \A i \in 1..Len(applied) : applied[i].described
    /\ remoteDescriptionSet => pc # Null /\ handles[pc].remoteDescription # 0

\* candidates received before the first offer
EarlyCands == {c \in 1..Len(arrivals) : arrivals[c].offers = 0}

\* C4: a candidate received before the first offer is buffered, not dropped,
\* and once the offer's answer is sent it has been applied to that offer's
\* handle before the answer, in arrival order.
C4_EarlyCandidateKept ==
    /\ \A c \in EarlyCands : c \in Buffered \/ c \in AppliedCands
    /\ \A a \in 1..Len(answers) :
          answers[a].offer = 1 =>
             \A c \in EarlyCands :
                \E i \in 1..answers[a].appliedBefore :
                   /\ applied[i].cand = c
                   /\ applied[i].handle = answers[a].handle
                   /\ \A j \in 1..answers[a].appliedBefore :
                         (applied[j].cand \in EarlyCands /\ applied[j].cand < c) => j < i

\* C10: draining is idempotent: no candidate is applied twice, a candidate is
\* held by at most one drain, and a drain on an empty buffer applies nothing
\* (so nothing is ever applied that was not received).
C10_DrainAppliesOnce ==
    /\ \A i, j \in 1..Len(applied) : i # j => applied[i].cand # applied[j].cand
    /\ AppliedCands \cap Buffered = {}
    /\ \A t \in tasks : Range(t.toApply) \cap Range(pendingCandidates) = {}
    /\ \A t, u \in tasks : t # u => Range(t.toApply) \cap Range(u.toApply) = {}
    /\ AppliedCands \subseteq 1..Len(arrivals)

\* the offer handler's drain is suspended between two applications while a
\* candidate arrival has started a drain of its own
C10_InterleavedDrains ==
    /\ \E t \in tasks : t.kind = "offer" /\ t.at = "addIceToPC"
    /\ \E t \in tasks : t.kind = "drain"
    /\ Len(applied) = 2
    /\ ~arrivals[applied[1].cand].remoteDescriptionSet
    /\ arrivals[applied[2].cand].remoteDescriptionSet
\* C20: within one negotiation session (one handle, one offer) candidates
\* are passed to addIceCandidate in the order they arrived (candidates are
\* numbered by arrival).
C20_AppliedInArrivalOrder ==
    \A i, j \in 1..Len(applied) :
        (/\ i < j
         /\ applied[i].handle = applied[j].handle
         /\ arrivals[applied[i].cand].offers = arrivals[applied[j].cand].offers)
        => applied[i].cand < applied[j].cand

\* C21: an offer reuses the current handle iff one exists and its
\* connectionState is neither closed nor failed; otherwise the old handle
\* (if any) is closed, a new handle is allocated and the buffer is emptied.
\* On reuse the buffer is left as it is.  In both cases remoteDescriptionSet
\* becomes false, and it becomes true again only when the description of
\* that (latest) offer has been applied to the current handle.
C21_ReuseRule ==
    [][/\ (offerCount' = offerCount + 1) =>
             /\ remoteDescriptionSet' = FALSE
             /\ IF pc # Null /\ handles[pc].connectionState \notin {"closed", "failed"}
                THEN /\ pc' = pc
                     /\ handles' = handles
                     /\ pendingCandidates' = pendingCandidates
                ELSE /\ Len(handles') = Len(handles) + 1
                     /\ pc' = Len(handles')
                     /\ handles'[pc'] = makePC
                     /\ \A h \in 1..Len(handles) :
                            handles'[h] = IF h = pc
                                          THEN [handles[h] EXCEPT !.connectionState = "closed"]
                                          ELSE handles[h]
                     /\ pendingCandidates' = <<>>
       /\ (remoteDescriptionSet' /\ ~remoteDescriptionSet) =>
             /\ pc' # Null
             /\ handles'[pc'].remoteDescription = offerCount'
    ]_vars

\* an awaited native call of offer handler t rejects in this step
RejectionStep(t) ==
    /\ t \in tasks /\ t.kind = "offer" /\ t.at # "rejected"
    /\ tasks' = (tasks \ {t}) \cup {[t EXCEPT !.at = "rejected"]}

\* candidate c was buffered when it arrived (not applied at once)
BufferedOnArrival(c) == ~(arrivals[c].pc # Null /\ arrivals[c].remoteDescriptionSet)

DescriptionApplied(n) ==
    \E t \in tasks : /\ t.kind = "offer" /\ t.n = n
                     /\ t.at \in {"addIceToPC", "createAnswer", "setLocalDescription"}
Answered(n) == \E a \in 1..Len(answers) : answers[a].offer = n
\* offer n's handler ended by a rejected call; byClose: on a handle that a
\* later offer had closed by then
Rejected(n, byClose) ==
    \E t \in tasks : /\ t.kind = "offer" /\ t.n = n /\ t.at = "rejected"
                     /\ byClose = (handles[t.thisPC].connectionState = "closed")

====
